---------------------------- MODULE Spec2Model ----------------------------
(***************************************************************************)
(* Oscil<NUM_TABLE_CELLS, UPDATE_RATE> of Cuttlefish/Mozzi (src/Oscil.h),  *)
(* as compiled for the AVR: char is 8 bits and signed, unsigned int is 16  *)
(* bits, long and unsigned long are 32 bits, float is IEEE-754 binary32.   *)
(*                                                                         *)
(* A 32-bit unsigned long is a tuple of its four bytes, least significant  *)
(* first (the AVR is little-endian and stores one byte per instruction).   *)
(* TLC's integers stop at 2^31 - 1, so every 32-bit operation is done on   *)
(* the bytes, with the carries the hardware has.                           *)
(***************************************************************************)
EXTENDS Integers, Sequences, FiniteSets, TLC

\* #define F_BITS 16
F_BITS == 16

\* #define F_BITS_AS_MULTIPLIER 65536
F_BITS_AS_MULTIPLIER == 65536

---------------------------------------------------------------------------
(* Natural numbers of any size: sequences of base-256 digits, least        *)
(* significant first.  An unsigned long is such a number cut to 4 digits.  *)

RECURSIVE Pow2(_)
Pow2(k) == IF k = 0 THEN 1 ELSE 2 * Pow2(k - 1)

RECURSIVE ToBytes(_, _)
ToBytes(n, k) == IF k = 0 THEN <<>> ELSE <<n % 256>> \o ToBytes(n \div 256, k - 1)

Digit(a, i) == IF i <= Len(a) THEN a[i] ELSE 0

Max(x, y) == IF x >= y THEN x ELSE y

RECURSIVE BigAddFrom(_, _, _, _, _)
BigAddFrom(a, b, i, n, c) ==
    IF i > n THEN <<c>>
    ELSE LET s == Digit(a, i) + Digit(b, i) + c
         IN  <<s % 256>> \o BigAddFrom(a, b, i + 1, n, s \div 256)

\* a + b, exactly
BigAdd(a, b) == BigAddFrom(a, b, 1, Max(Len(a), Len(b)), 0)

RECURSIVE BigMulFrom(_, _, _, _)
BigMulFrom(a, c, i, carry) ==
    IF i > Len(a) THEN ToBytes(carry, 3)
    ELSE LET t == a[i] * c + carry
         IN  <<t % 256>> \o BigMulFrom(a, c, i + 1, t \div 256)

\* a * c, exactly, for 0 <= c < 2^16
BigMul(a, c) == BigMulFrom(a, c, 1, 0)

RECURSIVE BigDivFrom(_, _, _, _)
BigDivFrom(a, r, i, rem) ==
    IF i = 0 THEN <<>>
    ELSE LET cur == rem * 256 + a[i]
         IN  BigDivFrom(a, r, i - 1, cur % r) \o <<cur \div r>>

\* a \div r (truncating), for 0 < r < 2^16
BigDiv(a, r) == BigDivFrom(a, r, Len(a), 0)

RECURSIVE BigCmpFrom(_, _, _)
BigCmpFrom(a, b, i) ==
    IF i = 0 THEN 0
    ELSE IF Digit(a, i) < Digit(b, i) THEN -1
    ELSE IF Digit(a, i) > Digit(b, i) THEN 1
    ELSE BigCmpFrom(a, b, i - 1)

BigLess(a, b) == BigCmpFrom(a, b, Max(Len(a), Len(b))) = -1
BigEq(a, b)   == BigCmpFrom(a, b, Max(Len(a), Len(b))) = 0
BigLeq(a, b)  == BigCmpFrom(a, b, Max(Len(a), Len(b))) <= 0

\* the digits from the k-th on: a \div 256^k
BigShr(a, k) == IF k >= Len(a) THEN <<0>> ELSE SubSeq(a, k + 1, Len(a))

---------------------------------------------------------------------------
(* unsigned long arithmetic: everything is reduced modulo 2^32.            *)

U32(a) == <<Digit(a, 1), Digit(a, 2), Digit(a, 3), Digit(a, 4)>>

\* a natural number below 2^31 as an unsigned long
ULong(n) == ToBytes(n, 4)

\* unsigned long + unsigned long
U32Add(a, b) == U32(BigAdd(a, b))

\* unsigned long * unsigned int
U32Mul(a, c) == U32(BigMul(a, c))

\* unsigned long / unsigned int
U32Div(a, r) == U32(BigDiv(a, r))

\* unsigned long << k, a whole number of bytes or not
U32Shl(a, k) == U32(BigMul(SubSeq(<<0, 0, 0, 0>>, 1, k \div 8) \o a, Pow2(k % 8)))

\* (unsigned long >> 16), which fits 16 bits
U32Shr16(a) == a[3] + 256 * a[4]

\* a long (two's complement) reinterpreted as an unsigned long
LongBits(m) ==
    IF m >= 0 THEN ULong(m)
    ELSE LET low == ToBytes(m + 2147483647 + 1, 4)
         IN  [low EXCEPT ![4] = low[4] + 128]

RECURSIVE BitAnd(_, _)
BitAnd(x, y) ==
    IF x = 0 \/ y = 0 THEN 0
    ELSE (x % 2) * (y % 2) + 2 * BitAnd(x \div 2, y \div 2)

---------------------------------------------------------------------------
(* float arithmetic: a non-negative binary32 value is <<m, e>>, meaning    *)
(* m * 2^e with m odd (or <<0, 0>>) and m < 2^24.  Every operation rounds  *)
(* its exact result to 24 significant bits, ties to even.  Exponent range  *)
(* (overflow to infinity, subnormals) is out of reach of 16-bit operands.  *)

RECURSIVE FNorm(_, _)
FNorm(m, e) ==
    IF m = 0 THEN <<0, 0>>
    ELSE IF m % 2 = 0 THEN FNorm(m \div 2, e + 1)
    ELSE <<m, e>>

RECURSIVE BitLen(_)
BitLen(n) == IF n = 0 THEN 0 ELSE 1 + BitLen(n \div 2)

\* m * 2^e rounded to 24 significant bits
FRound(m, e) ==
    LET s == BitLen(m) - 24
    IN  IF s <= 0 THEN FNorm(m, e)
        ELSE LET q    == m \div Pow2(s)
                 rem  == m % Pow2(s)
                 half == Pow2(s - 1)
                 up   == rem > half \/ (rem = half /\ q % 2 = 1)
             IN  FNorm(IF up THEN q + 1 ELSE q, e + s)

\* (float) of an unsigned int or of the long constant 65536
FFromInt(n) == FRound(n, 0)

\* float * float
FMul(a, b) == FRound(a[1] * b[1], a[2] + b[2])

\* the long division a[1] / r carried on bit by bit until the quotient has
\* 24 significant bits or comes out even
RECURSIVE FDivBits(_, _, _, _)
FDivBits(q, rem, r, k) ==
    IF rem = 0 \/ q >= 8388608 THEN <<q, rem, k>>
    ELSE FDivBits(2 * q + (IF 2 * rem >= r THEN 1 ELSE 0), (2 * rem) % r, r, k + 1)

\* float / float
FDiv(a, b) ==
    LET d   == FDivBits(a[1] \div b[1], a[1] % b[1], b[1], 0)
        q   == d[1]
        rem == d[2]
        up  == 2 * rem > b[1] \/ (2 * rem = b[1] /\ q % 2 = 1)
    IN  FRound(IF up THEN q + 1 ELSE q, a[2] - b[2] - d[3])

\* What a conversion or an operation the language leaves undefined may
\* yield: any unsigned long; these stand for them.
UndefinedULong == {<<0, 0, 0, 0>>, <<255, 255, 255, 255>>, <<0, 0, 1, 128>>}

\* (unsigned long) of a float, were it rounding to nearest
FToULong_nearest(a) ==
    IF a[2] >= 0
    THEN IF BitLen(a[1]) + a[2] > 32 THEN UndefinedULong
         ELSE {U32Shl(ULong(a[1]), a[2])}
    ELSE IF 0 - a[2] >= 25 THEN {ULong(0)}
         ELSE {ULong((a[1] + Pow2(0 - a[2] - 1)) \div Pow2(0 - a[2]))}

\* (unsigned long) of a float: truncation; a value of 2^32 or more has no
\* defined result
FToULong(a) ==
    IF a[2] >= 0
    THEN IF BitLen(a[1]) + a[2] > 32 THEN UndefinedULong
         ELSE {U32Shl(ULong(a[1]), a[2])}
    ELSE IF 0 - a[2] >= 24 THEN {ULong(0)}
         ELSE {ULong(a[1] \div Pow2(0 - a[2]))}

---------------------------------------------------------------------------
(* The oscillator's own operations, as functions of the fields they read.  *)

\* (char) of a byte
ToChar(b) == IF b < 128 THEN b ELSE b - 256

\* pgm_read_byte_near(table + i)
pgm_read_byte_near(tab, i) == tab[i + 1]

\* incrementPhase() with a phase that stops at 2^32 - 1 instead of wrapping
incrementPhase_saturating(ph, inc) ==
    IF BigAdd(ph, inc)[5] # 0 THEN <<255, 255, 255, 255>> ELSE U32Add(ph, inc)

\* incrementPhase(): phase_fractional += phase_increment_fractional
incrementPhase(ph, inc) == U32Add(ph, inc)

\* readTable() indexing with the fractional bits left in
readIndex_noShift(ph, n) == BitAnd(ph[1] + 256 * ph[2], n - 1)

\* the table index readTable() reads
readIndex(ph, n) == BitAnd(U32Shr16(ph), n - 1)

\* readTable()
readTable(ph, tab, n) == ToChar(pgm_read_byte_near(tab, readIndex(ph, n)))

\* Whether the long product m * n is a long.
LongMulFits(m, n) ==
    /\ m <= 2147483647 \div n
    /\ m >= (n - 2147483647 - 2) \div n

\* the modulation added without the table length
phModProduct_unscaled(m, n) == {LongBits(m)}

\* phmod_proportion * NUM_TABLE_CELLS: a long times an unsigned int is a
\* long product; one that does not fit a long is undefined, and then any
\* value may come out.
phModProduct(m, n) ==
    IF LongMulFits(m, n) THEN {U32Mul(LongBits(m), n)}
    ELSE UndefinedULong

\* the table indexes phMod() may read once the phase is advanced
phModIndex(ph, m, n) ==
    {BitAnd(U32Shr16(U32Add(ph, p)), n - 1) : p \in phModProduct(m, n)}

\* atIndex() with a mask one bit short
atIndex_halfMask(index, tab, n) ==
    ToChar(pgm_read_byte_near(tab, BitAnd(index, (n \div 2) - 1)))

\* atIndex(index)
atIndex(index, tab, n) == ToChar(pgm_read_byte_near(tab, BitAnd(index, n - 1)))

\* setFreq_n8() shifting the frequency before it multiplies
setFreq_n8_shiftFirst(frequency, n, r) ==
    U32Div(U32Mul(U32Shl(frequency, F_BITS - 8), n), r)

\* setFreq_n8() with setFreq()'s shift
setFreq_n8_fullShift(frequency, n, r) ==
    U32Shl(U32Div(U32Mul(frequency, n), r), F_BITS)

\* setFreq_n8(frequency): the value stored
setFreq_n8(frequency, n, r) ==
    U32Shl(U32Div(U32Mul(frequency, n), r), F_BITS - 8)

\* setFreq(unsigned int) without the cast: the product in 16 bits
setFreq_int_noCast(frequency, n, r) ==
    U32Shl(U32Div(ULong((frequency * n) % 65536), r), F_BITS)

\* setFreq(unsigned int) with setFreq_n8's shift
setFreq_int_n8Shift(frequency, n, r) ==
    U32Shl(U32Div(U32Mul(ULong(frequency), n), r), F_BITS - 8)

\* setFreq(unsigned int frequency): the value stored
setFreq_int(frequency, n, r) ==
    U32Shl(U32Div(U32Mul(ULong(frequency), n), r), F_BITS)

\* setFreq(float frequency): the values the store may get
setFreq_float(frequency, n, r) ==
    FToULong(FMul(FDiv(FMul(FFromInt(n), frequency), FFromInt(r)),
                  FFromInt(F_BITS_AS_MULTIPLIER)))

\* phaseIncFromFreq() without the cast: the product in 16 bits
phaseIncFromFreq_noCast(frequency, n, r) ==
    U32Shl(U32Div(ULong((frequency * n) % 65536), r), F_BITS)

\* phaseIncFromFreq(frequency)
phaseIncFromFreq(frequency, n, r) ==
    U32Shl(U32Div(U32Mul(ULong(frequency), n), r), F_BITS)

\* setPhaseInc(phaseinc_fractional): the value stored
setPhaseInc(phaseinc_fractional) == phaseinc_fractional

\* next() reading the table before it advances the phase
next_readFirst(ph, inc, tab, n) ==
    <<incrementPhase(ph, inc), readTable(ph, tab, n)>>

\* next(): the new phase and the sample returned
next(ph, inc, tab, n) ==
    LET p == incrementPhase(ph, inc)
    IN  <<p, readTable(p, tab, n)>>

\* phMod() offsetting the phase it has not yet advanced
phMod_staleRead(ph, inc, m, tab, n) ==
    LET p == incrementPhase(ph, inc)
    IN  {<<p, ToChar(pgm_read_byte_near(tab, i)), i>> : i \in phModIndex(ph, m, n)}

\* phMod() adding the modulation into the phase it keeps
phMod_accumulates(ph, inc, m, tab, n) ==
    {<<U32Add(incrementPhase(ph, inc), q),
       ToChar(pgm_read_byte_near(tab, readIndex(U32Add(incrementPhase(ph, inc), q), n))),
       readIndex(U32Add(incrementPhase(ph, inc), q), n)>> : q \in phModProduct(m, n)}

\* phMod(phmod_proportion): the new phase, with each sample it may return
\* and the index that sample is read at
phMod(ph, inc, m, tab, n) ==
    LET p == incrementPhase(ph, inc)
    IN  {<<p, ToChar(pgm_read_byte_near(tab, i)), i>> : i \in phModIndex(p, m, n)}

---------------------------------------------------------------------------
(* The state.  The template arguments and the table are fixed when the     *)
(* oscillator is made; the two contexts are the main program (control)     *)
(* and the timer interrupt that produces samples (production).             *)

VARIABLES
    NUM_TABLE_CELLS,             \* template argument
    UPDATE_RATE,                 \* template argument
    table,                       \* prog_char * table: the bytes in flash
    phase_fractional,            \* unsigned long
    phase_increment_fractional,  \* volatile unsigned long, byte by byte
    SREG_I,                      \* the global interrupt enable bit of SREG
    ctl,                         \* the control context: where it is in a setter
    last,                        \* the production context's last call
    run,                         \* since the increment last changed: the phase then, the
                                 \* calls that advanced it, the indexes next() read
    twin,                        \* a second oscillator, for comparing two runs
    stored,                      \* per setter: its last argument and what the
                                 \* increment held when it returned
    ncalls,                      \* production calls made
    nsets                        \* setter calls begun

vars == <<NUM_TABLE_CELLS, UPDATE_RATE, table, phase_fractional,
          phase_increment_fractional, SREG_I, ctl, last, run, twin,
          stored, ncalls, nsets>>

config == <<NUM_TABLE_CELLS, UPDATE_RATE, table>>

\* production calls per behaviour
MaxCalls == 2

\* setter calls per behaviour
MaxSets == 1

Table8 == <<0, 1, 2, 3, 4, 5, 6, 7>>

Table16 == <<128, 200, 255, 3, 17, 90, 127, 64, 32, 16, 8, 4, 2, 1, 0, 250>>

Table256 == [i \in 1..256 |-> i - 1]

\* <<NUM_TABLE_CELLS, UPDATE_RATE, table>>
Configs == {<<8, 64, Table8>>, <<16, 100, Table16>>, <<256, 16384, Table256>>}

\* The constructor sets table alone, so an oscillator that is not a static
\* object starts with whatever its memory held.
PhaseInits == {ULong(0), <<52, 128, 255, 255>>}

IncInits == {ULong(65536), <<120, 86, 52, 18>>}

Idle == [pc |-> "idle", fn |-> "none", arg |-> 0, sreg_save |-> FALSE,
         val |-> <<>>, i |-> 0, before |-> <<>>, incr |-> <<>>]

NoCall == [fn |-> "none", arg |-> 0, ret |-> 0, idx |-> 0, ph0 |-> <<>>,
           inc |-> <<>>, pc |-> "idle", old |-> <<>>, new |-> <<>>]

NoTwin == [phase |-> <<>>, inc |-> <<>>, ret |-> 0, f |-> 0, incr |-> <<>>,
           set |-> FALSE, n |-> 0]

Setters == {"setFreq_n8", "setFreq_int", "setFreq_float", "setPhaseInc"}

\* Oscil(prog_char * TABLE_NAME):table(TABLE_NAME) {}
Oscil(configs, phases, incs, flags) ==
    /\ \E c \in configs :
           /\ NUM_TABLE_CELLS = c[1]
           /\ UPDATE_RATE = c[2]
           /\ table = c[3]
    /\ phase_fractional \in phases
    /\ phase_increment_fractional \in incs
    /\ SREG_I \in flags
    /\ ctl = Idle
    /\ last = NoCall
    /\ run = [start |-> phase_fractional, n |-> 0, idx |-> <<>>]
    /\ stored = [fn \in Setters |-> <<>>]
    /\ ncalls = 0
    /\ nsets = 0

Init ==
    /\ Oscil({c \in Configs : c[2] # 100}, PhaseInits, IncInits, BOOLEAN)
    /\ twin = NoTwin

---------------------------------------------------------------------------
(* The control context.  ATOMIC_BLOCK(ATOMIC_RESTORESTATE) { store } is:   *)
(* sreg_save = SREG; cli(); the store, one byte at a time; SREG = sreg_save*)

\* the values a setter call may store
SetterValue(fn, arg) ==
    CASE fn = "setFreq_n8"    -> {setFreq_n8(arg, NUM_TABLE_CELLS, UPDATE_RATE)}
      [] fn = "setFreq_int"   -> {setFreq_int(arg, NUM_TABLE_CELLS, UPDATE_RATE)}
      [] fn = "setFreq_float" -> setFreq_float(arg, NUM_TABLE_CELLS, UPDATE_RATE)
      [] fn = "setPhaseInc"   -> {setPhaseInc(arg)}

\* a setter is called: ATOMIC_BLOCK reads SREG
Enter(fn, arg) ==
    /\ ctl.pc = "idle"
    /\ ctl' = [ctl EXCEPT !.pc = "entered", !.fn = fn, !.arg = arg,
                          !.sreg_save = SREG_I, !.incr = <<>>,
                          !.before = phase_increment_fractional]
    /\ nsets' = nsets + 1
    /\ UNCHANGED <<config, phase_fractional, phase_increment_fractional,
                   SREG_I, last, run, twin, stored, ncalls>>

\* a setter whose store is not in an atomic block: interrupts stay as
\* they were
Cli_notAtomic ==
    /\ ctl.pc = "entered"
    /\ \E v \in SetterValue(ctl.fn, ctl.arg) :
           ctl' = [ctl EXCEPT !.pc = "store", !.val = v, !.i = 1]
    /\ UNCHANGED <<config, phase_fractional, phase_increment_fractional,
                   SREG_I, last, run, twin, stored, ncalls, nsets>>

\* cli(), and the right-hand side is worked out
Cli ==
    /\ ctl.pc = "entered"
    /\ SREG_I' = FALSE
    /\ \E v \in SetterValue(ctl.fn, ctl.arg) :
           ctl' = [ctl EXCEPT !.pc = "store", !.val = v, !.i = 1]
    /\ UNCHANGED <<config, phase_fractional, phase_increment_fractional,
                   last, run, twin, stored, ncalls, nsets>>

\* a setter whose store goes to phase_fractional
StoreByte_intoPhase ==
    /\ ctl.pc = "store"
    /\ phase_fractional' = [phase_fractional EXCEPT ![ctl.i] = ctl.val[ctl.i]]
    /\ ctl' = IF ctl.i = 4 THEN [ctl EXCEPT !.pc = "restore"]
              ELSE [ctl EXCEPT !.i = ctl.i + 1]
    /\ UNCHANGED <<config, phase_increment_fractional, SREG_I, last, run,
                   twin, stored, ncalls, nsets>>

\* one byte of phase_increment_fractional is stored
StoreByte ==
    /\ ctl.pc = "store"
    /\ phase_increment_fractional' =
           [phase_increment_fractional EXCEPT ![ctl.i] = ctl.val[ctl.i]]
    /\ ctl' = IF ctl.i = 4 THEN [ctl EXCEPT !.pc = "restore"]
              ELSE [ctl EXCEPT !.i = ctl.i + 1]
    /\ UNCHANGED <<config, phase_fractional, SREG_I, last, run, twin, stored,
                   ncalls, nsets>>

\* a setter that returns without writing SREG back
Restore_leavesDisabled ==
    /\ ctl.pc = "restore"
    /\ ctl' = [ctl EXCEPT !.pc = "idle", !.val = <<>>, !.i = 0, !.before = <<>>]
    /\ run' = [start |-> phase_fractional, n |-> 0, idx |-> <<>>]
    /\ stored' = [stored EXCEPT ![ctl.fn] = <<ctl.arg, phase_increment_fractional>>]
    /\ UNCHANGED <<config, phase_fractional, phase_increment_fractional,
                   SREG_I, last, twin, ncalls, nsets>>

\* SREG = sreg_save, and the setter returns
Restore ==
    /\ ctl.pc = "restore"
    /\ SREG_I' = ctl.sreg_save
    /\ ctl' = [ctl EXCEPT !.pc = "idle", !.val = <<>>, !.i = 0, !.before = <<>>]
    /\ run' = [start |-> phase_fractional, n |-> 0, idx |-> <<>>]
    /\ stored' = [stored EXCEPT ![ctl.fn] = <<ctl.arg, phase_increment_fractional>>]
    /\ UNCHANGED <<config, phase_fractional, phase_increment_fractional,
                   last, twin, ncalls, nsets>>

\* phaseIncFromFreq(frequency) is called and its result kept
CallPhaseIncFromFreq(f) ==
    /\ ctl.pc = "idle"
    /\ ctl' = [ctl EXCEPT !.fn = "phaseIncFromFreq", !.arg = f,
                          !.incr = phaseIncFromFreq(f, NUM_TABLE_CELLS, UPDATE_RATE)]
    /\ UNCHANGED <<config, phase_fractional, phase_increment_fractional,
                   SREG_I, last, run, twin, stored, ncalls, nsets>>

---------------------------------------------------------------------------
(* The production context: the timer interrupt, taken only while the       *)
(* interrupt enable bit is set, and run to its end before the control      *)
(* context goes on.                                                        *)

ProductionMayRun == SREG_I

\* What is kept of a call: its argument, the sample returned and the index
\* it was read at, the phase and the increment bytes the call found, and
\* where the control context stood (in which setter step, between which
\* old and new increment).
Seen(fn, arg, ret, idx) ==
    [fn |-> fn, arg |-> arg, ret |-> ret, idx |-> idx,
     ph0 |-> phase_fractional, inc |-> phase_increment_fractional,
     pc |-> ctl.pc, old |-> ctl.before, new |-> ctl.val]

CallNext ==
    /\ ProductionMayRun
    /\ LET r == next(phase_fractional, phase_increment_fractional, table,
                     NUM_TABLE_CELLS)
           i == readIndex(r[1], NUM_TABLE_CELLS)
       IN  /\ phase_fractional' = r[1]
           /\ last' = Seen("next", 0, r[2], i)
           /\ run' = [run EXCEPT !.n = @ + 1, !.idx = Append(@, i)]
    /\ ncalls' = ncalls + 1
    /\ UNCHANGED <<config, phase_increment_fractional, SREG_I, ctl, twin, stored, nsets>>

CallPhMod(m) ==
    /\ ProductionMayRun
    /\ \E r \in phMod(phase_fractional, phase_increment_fractional, m, table,
                      NUM_TABLE_CELLS) :
           /\ phase_fractional' = r[1]
           /\ last' = Seen("phMod", m, r[2], r[3])
           /\ run' = [run EXCEPT !.n = @ + 1]
    /\ ncalls' = ncalls + 1
    /\ UNCHANGED <<config, phase_increment_fractional, SREG_I, ctl, twin, stored, nsets>>

CallAtIndex(index) ==
    /\ ProductionMayRun
    /\ last' = Seen("atIndex", index, atIndex(index, table, NUM_TABLE_CELLS),
                    BitAnd(index, NUM_TABLE_CELLS - 1))
    /\ ncalls' = ncalls + 1
    /\ UNCHANGED <<config, phase_fractional, phase_increment_fractional,
                   SREG_I, ctl, run, twin, stored, nsets>>

---------------------------------------------------------------------------
(* The arguments the calls are made with.                                  *)

\* Q24n8 frequencies: 440 Hz, and one whose product with the table length
\* does not fit 32 bits
N8Args == {ULong(112640), <<0, 1, 0, 64>>}

IntArgs == {256, 65535}

\* 440.25, and 2^30, whose increment does not fit 32 bits
FloatArgs == {<<1761, -2>>, <<1, 30>>}

PhaseIncArgs == {<<255, 255, 255, 255>>}

\* 0, the ends of [-1, 1), the least step back, and one whose product
\* overflows
PhModArgs == {0, 65535, -65536, -1, 1073741824}

IndexArgs == {5, 255, 65535}

\* The control program sets the increment at most MaxSets times, and hands
\* what phaseIncFromFreq() returned to setPhaseInc() before anything else.
MaySet == nsets < MaxSets /\ ctl.incr = <<>>

Next ==
    \/ \E a \in N8Args : MaySet /\ Enter("setFreq_n8", a)
    \/ \E a \in IntArgs : MaySet /\ Enter("setFreq_int", a)
    \/ \E a \in FloatArgs : MaySet /\ Enter("setFreq_float", a)
    \/ \E a \in PhaseIncArgs : MaySet /\ Enter("setPhaseInc", a)
    \/ \E f \in {8} : MaySet /\ CallPhaseIncFromFreq(f)
    \/ nsets < MaxSets /\ ctl.incr # <<>> /\ Enter("setPhaseInc", ctl.incr)
    \/ Cli
    \/ StoreByte
    \/ Restore
    \/ ncalls < MaxCalls /\ CallNext
    \/ \E m \in PhModArgs : ncalls < MaxCalls /\ CallPhMod(m)
    \/ \E i \in IndexArgs : ncalls < MaxCalls /\ CallAtIndex(i)

Spec == Init /\ [][Next]_vars

---------------------------------------------------------------------------
(* Properties of next(), phMod() and atIndex() in the interrupt model.     *)

ProductionCall(fn) == ncalls' = ncalls + 1 /\ last'.fn = fn

\* C1: one call to next() adds phase_increment_fractional to
\* phase_fractional modulo 2^32 and then returns the table entry at index
\* (new phase >> 16) & (NUM_TABLE_CELLS - 1); the increment and the table
\* are left as they were.
C1_NextAdvancesThenReads ==
    [][ProductionCall("next") =>
          /\ phase_fractional' = U32Add(phase_fractional, phase_increment_fractional)
          /\ last'.ret = ToChar(table[BitAnd(U32Shr16(phase_fractional'),
                                             NUM_TABLE_CELLS - 1) + 1])
          /\ phase_increment_fractional' = phase_increment_fractional
          /\ table' = table]_vars

\* next() has run from a phase that the addition wrapped past 2^32, and
\* returned a sample other than the table's first.
C1_Witness ==
    /\ last.fn = "next"
    /\ BigLess(phase_fractional, last.ph0)
    /\ last.ret # ToChar(table[1])

\* C3: phMod(0) returns the sample next() returns from the same phase and
\* increment, and leaves the phase next() leaves.
C3_PhModZeroIsNext ==
    (last.fn = "phMod" /\ last.arg = 0) =>
        <<phase_fractional, last.ret>> = next(last.ph0, last.inc, table, NUM_TABLE_CELLS)

\* phMod(0) has run with an increment that moved the read index.
C3_Witness ==
    /\ last.fn = "phMod"
    /\ last.arg = 0
    /\ readIndex(last.ph0, NUM_TABLE_CELLS) # last.idx

\* The index the modulation formula gives with every sum and product taken
\* modulo 2^32.
WrappedIndex(ph, m, n) ==
    BitAnd(U32Shr16(U32Add(ph, U32Mul(LongBits(m), n))), n - 1)

C5_AtIndexPeriodic ==
    [][ProductionCall("atIndex") =>
          /\ last'.ret = ToChar(table[(last'.arg % NUM_TABLE_CELLS) + 1])
          /\ last'.ret = atIndex((last'.arg + NUM_TABLE_CELLS) % 65536, table,
                                 NUM_TABLE_CELLS)
          /\ phase_fractional' = phase_fractional
          /\ phase_increment_fractional' = phase_increment_fractional]_vars

\* atIndex() has been given an index past the table's end, whose sum with
\* the table length does not fit 16 bits.
C5_Witness ==
    /\ last.fn = "atIndex"
    /\ last.arg + NUM_TABLE_CELLS > 65535
    /\ last.idx # 0

\* C2: whatever setter the control context is in when the interrupt runs
\* next() or phMod(), the increment the call adds is whole: the value
\* phase_increment_fractional held when the setter was entered or the value
\* the setter stores, never some bytes of each; the bytes are stored with
\* the interrupt disabled.
C2_NoTornRead ==
    /\ ctl.pc \in {"store", "restore"} => ~SREG_I
    /\ (last.fn \in {"next", "phMod"} /\ last.pc # "idle") =>
           /\ last.inc \in {last.old, last.new}
           /\ phase_fractional = U32Add(last.ph0, last.inc)

\* The interrupt ran next() or phMod() after a setter was entered, and the
\* setter has since stored all four bytes of an increment that differs from
\* the old one in every byte.
C2_Witness ==
    /\ last.fn \in {"next", "phMod"}
    /\ last.pc = "entered"
    /\ ctl.pc = "restore"
    /\ \A i \in 1..4 : ctl.val[i] # ctl.before[i]

---------------------------------------------------------------------------
(* A program that sets the frequency once, before the timer starts, and    *)
(* then lets next() run: the cycles of the phase.                          *)

\* successive next() calls
MaxRun == 130

CycleFreqs == {4, 8, 16, 20, 25, 128, 256}

InitCycle ==
    /\ Oscil(Configs, PhaseInits, IncInits, {TRUE})
    /\ twin = NoTwin

NextCycle ==
    \/ \E f \in CycleFreqs : nsets = 0 /\ ncalls = 0 /\ Enter("setFreq_int", f)
    \/ Cli
    \/ StoreByte
    \/ Restore
    \/ ctl.pc = "idle" /\ run.n < MaxRun /\ CallNext

SpecCycle == InitCycle /\ [][NextCycle]_vars

\* setFreq(f) has returned and only next() has run since
AfterSetFreq(f) ==
    /\ ctl.pc = "idle"
    /\ stored["setFreq_int"] # <<>>
    /\ stored["setFreq_int"][1] = f

\* C8 as claimed: whenever f > 0 divides UPDATE_RATE, UPDATE_RATE / f calls
\* of next() after setFreq(f) advance the phase by NUM_TABLE_CELLS << 16
\* modulo 2^32.
C8_Original ==
    \A f \in CycleFreqs :
        (AfterSetFreq(f) /\ UPDATE_RATE % f = 0 /\ run.n = UPDATE_RATE \div f) =>
            phase_fractional = U32Add(run.start, ULong(NUM_TABLE_CELLS * 65536))

\* C8 amended: the same when, besides, UPDATE_RATE divides
\* f * NUM_TABLE_CELLS, so that the division in setFreq() leaves no
\* remainder.
C8_FullCycle ==
    \A f \in CycleFreqs :
        (/\ AfterSetFreq(f)
         /\ UPDATE_RATE % f = 0
         /\ (f * NUM_TABLE_CELLS) % UPDATE_RATE = 0
         /\ run.n = UPDATE_RATE \div f) =>
            phase_fractional = U32Add(run.start, ULong(NUM_TABLE_CELLS * 65536))

\* UPDATE_RATE / f > 1 calls have run after setFreq(f), with f dividing
\* UPDATE_RATE and UPDATE_RATE dividing f * NUM_TABLE_CELLS, from a phase
\* that the cycle wraps past 2^32.
C8_Witness ==
    \E f \in CycleFreqs :
        /\ AfterSetFreq(f)
        /\ UPDATE_RATE % f = 0
        /\ (f * NUM_TABLE_CELLS) % UPDATE_RATE = 0
        /\ run.n = UPDATE_RATE \div f
        /\ run.n > 1
        /\ BigLess(phase_fractional, run.start)

\* the scenario: 8 cells holding 0..7, phase 0 when the calls began,
\* increment 1 << 16, k >= 1 calls of next() made
Scenario8 ==
    /\ NUM_TABLE_CELLS = 8
    /\ table = <<0, 1, 2, 3, 4, 5, 6, 7>>
    /\ ctl.pc = "idle"
    /\ run.start = ULong(0)
    /\ phase_increment_fractional = ULong(65536)
    /\ run.n >= 1
    /\ last.fn = "next"

\* C9 as claimed: in the scenario the calls return 0, 1, 2, ..., 7, 0, ...:
\* the k-th returns (k - 1) mod 8.
C9_Original == Scenario8 => last.ret = (run.n - 1) % 8

\* C9 amended: the calls return 1, 2, ..., 7, 0, 1, ...: the k-th returns
\* k mod 8, the first 1, because next() advances the phase before it reads.
C9_RampFromOne ==
    Scenario8 =>
        /\ last.ret = run.n % 8
        /\ \A k \in 1..run.n : run.idx[k] = k % 8

\* The scenario's tenth call: the ramp has wrapped once.
C9_Witness == Scenario8 /\ run.n = 10 /\ last.ret = 2

\* the scenario: 256 cells, rate 16384, setFreq(256), 64 calls of next()
Scenario256 ==
    /\ NUM_TABLE_CELLS = 256
    /\ UPDATE_RATE = 16384
    /\ AfterSetFreq(256)
    /\ run.n = 64

Advanced64 ==
    /\ phase_increment_fractional = ULong(262144)
    /\ phase_fractional = U32Add(run.start, ULong(16777216))

\* C10 as claimed: the increment is 262144, the 64 calls advance the phase
\* by 16777216, and they read every index 0..255 in ascending order.
C10_Original ==
    Scenario256 =>
        /\ Advanced64
        /\ {run.idx[k] : k \in 1..64} = 0..255
        /\ \A k \in 1..63 : run.idx[k] < run.idx[k + 1]

\* C10 amended: the increment is 262144, the 64 calls advance the phase by
\* 16777216, and they go once round the table reading every fourth entry:
\* the k-th call reads index (i + 4k) mod 256, i the index of the phase
\* the calls began at; 64 of the 256 entries are read.
C10_EveryFourthEntry ==
    Scenario256 =>
        /\ Advanced64
        /\ \A k \in 1..64 :
               run.idx[k] = (readIndex(run.start, 256) + 4 * k) % 256
        /\ Cardinality({run.idx[k] : k \in 1..64}) = 64
        /\ run.idx[64] = readIndex(run.start, 256)

\* The 64 calls have run from phase 0 and the last one read index 0 again.
C10_Witness ==
    /\ Scenario256
    /\ run.start = ULong(0)
    /\ run.idx[1] = 4
    /\ run.idx[64] = 0

---------------------------------------------------------------------------
(* Two runs side by side.  The oscillator of the state calls setFreq(f);   *)
(* a second one, twin, made with the same template arguments and table     *)
(* and starting at the same phase, calls setPhaseInc(phaseIncFromFreq(f)). *)
(* Then the same next() and phMod() calls are made on both.                *)

TwinFreqs == {1, 256, 440, 65535}

TwinPhModArgs == {0, -65536, 65535, 1073741824}

InitTwin ==
    /\ Oscil(Configs, PhaseInits, IncInits, {TRUE})
    /\ \E i \in IncInits :
           twin = [NoTwin EXCEPT !.phase = phase_fractional, !.inc = i]

\* twin: increment = phaseIncFromFreq(f)
TwinPhaseIncFromFreq(f) ==
    /\ twin.incr = <<>>
    /\ ~twin.set
    /\ twin' = [twin EXCEPT !.f = f,
                   !.incr = phaseIncFromFreq(f, NUM_TABLE_CELLS, UPDATE_RATE)]
    /\ UNCHANGED <<config, phase_fractional, phase_increment_fractional,
                   SREG_I, ctl, last, run, stored, ncalls, nsets>>

\* twin: setPhaseInc(increment)
TwinSetPhaseInc ==
    /\ twin.incr # <<>>
    /\ ~twin.set
    /\ twin' = [twin EXCEPT !.inc = setPhaseInc(twin.incr), !.set = TRUE]
    /\ UNCHANGED <<config, phase_fractional, phase_increment_fractional,
                   SREG_I, ctl, last, run, stored, ncalls, nsets>>

\* both runs have set their increment, and made the same calls so far
BothSet == twin.set /\ stored["setFreq_int"] # <<>> /\ ctl.pc = "idle"

\* twin: the call the first run made last
TwinCall ==
    /\ twin.n < ncalls
    /\ \/ /\ last.fn = "next"
          /\ LET r == next(twin.phase, twin.inc, table, NUM_TABLE_CELLS)
             IN  twin' = [twin EXCEPT !.phase = r[1], !.ret = r[2], !.n = @ + 1]
       \/ /\ last.fn = "phMod"
          /\ \E r \in phMod(twin.phase, twin.inc, last.arg, table,
                            NUM_TABLE_CELLS) :
                 twin' = [twin EXCEPT !.phase = r[1], !.ret = r[2], !.n = @ + 1]
    /\ UNCHANGED <<config, phase_fractional, phase_increment_fractional,
                   SREG_I, ctl, last, run, stored, ncalls, nsets>>

NextTwin ==
    \/ \E f \in TwinFreqs : TwinPhaseIncFromFreq(f)
    \/ TwinSetPhaseInc
    \/ nsets = 0 /\ twin.incr # <<>> /\ Enter("setFreq_int", twin.f)
    \/ Cli
    \/ StoreByte
    \/ Restore
    \/ BothSet /\ twin.n = ncalls /\ ncalls < MaxCalls /\ CallNext
    \/ \E m \in TwinPhModArgs :
           BothSet /\ twin.n = ncalls /\ ncalls < MaxCalls /\ CallPhMod(m)
    \/ TwinCall

SpecTwin == InitTwin /\ [][NextTwin]_vars

\* the two runs hold the same increment and, the same calls made, the same
\* phase
SameIncrementAndPhase ==
    BothSet =>
        /\ twin.inc = phase_increment_fractional
        /\ twin.n = ncalls => twin.phase = phase_fractional

\* phaseIncFromFreq() leaves the oscillator as it was
PhaseIncFromFreqIsPure ==
    [][(\E f \in TwinFreqs : TwinPhaseIncFromFreq(f)) =>
           /\ twin'.phase = twin.phase
           /\ twin'.inc = twin.inc
           /\ twin'.ret = twin.ret]_vars

---------------------------------------------------------------------------
(* One frequency f given to each of the three setters in turn: as          *)
(* 256 * f to setFreq_n8(), as f to setFreq(unsigned int), as (float) f    *)
(* to setFreq(float).                                                      *)

SetterFreqs == {1, 25, 440, 3201, 65535}

SetterArg(fn, f) ==
    CASE fn = "setFreq_n8"    -> <<0>> \o ToBytes(f, 3)
      [] fn = "setFreq_int"   -> f
      [] fn = "setFreq_float" -> FFromInt(f)

\* fn has not been called yet, and the setters called were given f
MayCallWith(fn, f) ==
    /\ stored[fn] = <<>>
    /\ \A g \in Setters \ {"setPhaseInc"} :
           stored[g] # <<>> => stored[g][1] = SetterArg(g, f)

InitSetters ==
    /\ Oscil(Configs, PhaseInits, IncInits, BOOLEAN)
    /\ twin = NoTwin

NextSetters ==
    \/ \E f \in SetterFreqs :
           MayCallWith("setFreq_n8", f) /\ Enter("setFreq_n8", SetterArg("setFreq_n8", f))
    \/ \E f \in SetterFreqs :
           MayCallWith("setFreq_int", f) /\ Enter("setFreq_int", SetterArg("setFreq_int", f))
    \/ \E f \in SetterFreqs :
           MayCallWith("setFreq_float", f) /\ Enter("setFreq_float", SetterArg("setFreq_float", f))
    \/ Cli
    \/ StoreByte
    \/ Restore

SpecSetters == InitSetters /\ [][NextSetters]_vars

Fits32(a) == \A i \in 5..Len(a) : a[i] = 0

\* f * NUM_TABLE_CELLS * 65536: the exact increment times UPDATE_RATE
ExactTimesRate(f) == <<0, 0>> \o BigMul(ULong(f), NUM_TABLE_CELLS)

\* No product and no shift of the three setters leaves 32 bits for f.
SafeRange(f) ==
    LET fn == BigMul(ULong(f), NUM_TABLE_CELLS)
    IN  /\ Fits32(<<0>> \o fn)
        /\ Fits32(<<0>> \o BigDiv(<<0>> \o fn, UPDATE_RATE))
        /\ Fits32(<<0, 0>> \o BigDiv(fn, UPDATE_RATE))
        /\ BigLess(ExactTimesRate(f), <<0, 0, 0, 0>> \o ToBytes(UPDATE_RATE, 2))

\* setter fn has been given f, in the safe range, and has returned
Given(fn, f) ==
    /\ SafeRange(f)
    /\ stored[fn] # <<>>
    /\ stored[fn][1] = SetterArg(fn, f)

\* exact - g < v <= exact: v is the exact increment cut to a multiple of g
Truncated(v, f, g) ==
    /\ BigLeq(BigMul(v, UPDATE_RATE), ExactTimesRate(f))
    /\ BigLess(ExactTimesRate(f), BigMul(BigAdd(v, ULong(g)), UPDATE_RATE))

\* |v - exact| < 1
WithinOne(v, f) ==
    /\ BigLess(ExactTimesRate(f), BigMul(BigAdd(v, ULong(1)), UPDATE_RATE))
    /\ BigLess(BigMul(v, UPDATE_RATE),
               BigAdd(ExactTimesRate(f), ToBytes(UPDATE_RATE, 2)))

\* |v - exact| < 1 + exact / 2^24
WithinOneAndRounding(v, f) ==
    LET x  == ExactTimesRate(f)
        vr == BigMul(v, UPDATE_RATE)
        r  == ToBytes(UPDATE_RATE, 2)
    IN  /\ BigLess(<<0, 0, 0>> \o x, BigAdd(<<0, 0, 0>> \o BigAdd(vr, r), x))
        /\ BigLess(<<0, 0, 0>> \o vr, BigAdd(<<0, 0, 0>> \o BigAdd(x, r), x))

\* |v - w| < 2^16
Within65536(v, w) ==
    /\ BigLess(v, BigAdd(w, ULong(65536)))
    /\ BigLess(w, BigAdd(v, ULong(65536)))

SetterPairs ==
    {<<"setFreq_n8", "setFreq_int">>, <<"setFreq_n8", "setFreq_float">>,
     <<"setFreq_int", "setFreq_float">>}

IntegerSettersTruncate ==
    \A f \in SetterFreqs :
        /\ Given("setFreq_n8", f) => Truncated(stored["setFreq_n8"][2], f, 256)
        /\ Given("setFreq_int", f) => Truncated(stored["setFreq_int"][2], f, 65536)

AnyTwoWithin65536 ==
    \A f \in SetterFreqs : \A p \in SetterPairs :
        (Given(p[1], f) /\ Given(p[2], f))
            => Within65536(stored[p[1]][2], stored[p[2]][2])

\* C7 as claimed: for f in the safe range, setFreq_n8(256 f) stores within
\* 2^8 of the exact increment, setFreq(unsigned int f) within 2^16,
\* setFreq(float f) within 1, and any two of them are within 2^16 of each
\* other.
C7_Original ==
    /\ IntegerSettersTruncate
    /\ \A f \in SetterFreqs :
           Given("setFreq_float", f) => WithinOne(stored["setFreq_float"][2], f)
    /\ AnyTwoWithin65536

\* C7 amended: for f in the safe range, setFreq_n8(256 f) stores the exact
\* increment (N * f / R) * 65536 cut down by less than 2^8, setFreq(unsigned
\* int f) cut down by less than 2^16, setFreq(float f) a value within
\* 1 + exact / 2^24 of it (the single-precision quotient is rounded to 24
\* bits before the truncation), and any two of them are within 2^16 of each
\* other.
C7_SettersAgreeUpToRounding ==
    /\ IntegerSettersTruncate
    /\ \A f \in SetterFreqs :
           Given("setFreq_float", f) => WithinOneAndRounding(stored["setFreq_float"][2], f)
    /\ AnyTwoWithin65536

\* The three setters have been given 3201 Hz with 16 cells at rate 100,
\* where the exact increment is 33564917.76: they stored 33564672, 33554432
\* and 33564916.
C7_Witness ==
    /\ NUM_TABLE_CELLS = 16
    /\ UPDATE_RATE = 100
    /\ SafeRange(3201)
    /\ ctl.pc = "idle"
    /\ stored["setFreq_n8"] = <<SetterArg("setFreq_n8", 3201), <<0, 40, 0, 2>>>>
    /\ stored["setFreq_int"] = <<3201, <<0, 0, 0, 2>>>>
    /\ stored["setFreq_float"] = <<FFromInt(3201), <<244, 40, 0, 2>>>>

---------------------------------------------------------------------------
(* Who writes what.                                                        *)

\* a step of the control context: a setter's step or phaseIncFromFreq()
ControlStep == ctl' # ctl

\* a step of the production context: a whole next(), phMod() or atIndex()
ProductionStep == ncalls' = ncalls + 1

\* C11: in every interleaving, no step of the control context (the four
\* setters, phaseIncFromFreq) changes phase_fractional, no call of next(),
\* phMod() or atIndex() changes phase_increment_fractional, the phase
\* changes in next() and phMod() calls only, and no step writes the table.
C11_WritersAreSeparate ==
    [][/\ table' = table
       /\ ControlStep => phase_fractional' = phase_fractional
       /\ ProductionStep =>
              phase_increment_fractional' = phase_increment_fractional
       /\ phase_fractional' # phase_fractional =>
              ProductionStep /\ last'.fn \in {"next", "phMod"}]_vars

\* next() or phMod() ran between a setter's entry and its store and moved
\* the phase; the setter has returned, having changed the increment and
\* left the phase the call made.
C11_Witness ==
    /\ last.fn \in {"next", "phMod"}
    /\ last.pc = "entered"
    /\ ctl.pc = "idle"
    /\ nsets = 1
    /\ phase_fractional = U32Add(last.ph0, last.inc)
    /\ phase_fractional # last.ph0
    /\ phase_increment_fractional # last.inc

---------------------------------------------------------------------------
(* setFreq(float) given frequencies with and without a fractional part.    *)

\* 0, 5/65536, 0.5, 1, 440.25, 3201, and 2^30, which is out of range
FloatFreqs == {<<0, 0>>, <<5, -16>>, <<1, -1>>, <<1, 0>>, <<1761, -2>>,
               <<3201, 0>>, <<1, 30>>}

InitFloat ==
    /\ Oscil(Configs, PhaseInits, IncInits, BOOLEAN)
    /\ twin = NoTwin

NextFloat ==
    \/ \E a \in FloatFreqs : nsets < MaxSets /\ Enter("setFreq_float", a)
    \/ Cli
    \/ StoreByte
    \/ Restore

SpecFloat == InitFloat /\ [][NextFloat]_vars

\* a * 2^k, exactly
BigShl(a, k) ==
    [i \in 1..(k \div 8) |-> 0] \o BigMul(a, Pow2(k % 8))

\* NUM_TABLE_CELLS * f * 65536 for the float f = a[1] * 2^a[2], a[2] >= -16:
\* the exact increment times UPDATE_RATE
ExactFloatTimesRate(a) ==
    BigShl(BigMul(ToBytes(a[1], 3), NUM_TABLE_CELLS), a[2] + 16)

\* setFreq(float) has returned, given a, whose exact increment is below 2^32
FloatGiven(a) ==
    /\ stored["setFreq_float"] # <<>>
    /\ stored["setFreq_float"][1] = a
    /\ BigLess(ExactFloatTimesRate(a),
               <<0, 0, 0, 0>> \o ToBytes(UPDATE_RATE, 2))

\* v is a nearest integer to x / UPDATE_RATE
Nearest(v, x) ==
    LET r  == ToBytes(UPDATE_RATE, 2)
        vr == BigMul(v, UPDATE_RATE)
    IN  /\ BigLeq(BigAdd(vr, vr), BigAdd(BigAdd(x, x), r))
        /\ BigLeq(BigAdd(x, x), BigAdd(BigAdd(vr, vr), r))

\* v = floor(x / UPDATE_RATE)
Floor(v, x) ==
    /\ BigLeq(BigMul(v, UPDATE_RATE), x)
    /\ BigLess(x, BigMul(BigAdd(v, ULong(1)), UPDATE_RATE))

\* exact - 1 - exact / 2^24 < v <= exact + exact / 2^24, exact = x / UPDATE_RATE
FloorOfRounded(v, x) ==
    LET r  == ToBytes(UPDATE_RATE, 2)
        vr == BigMul(v, UPDATE_RATE)
    IN  /\ BigLess(<<0, 0, 0>> \o x, BigAdd(<<0, 0, 0>> \o BigAdd(vr, r), x))
        /\ BigLeq(<<0, 0, 0>> \o vr, BigAdd(<<0, 0, 0>> \o x, x))

\* C12 as claimed: for every f >= 0 in the safe range setFreq(float f)
\* stores the integer nearest to the exact (N * f / R) * 65536.
C12_Original ==
    \A a \in FloatFreqs :
        FloatGiven(a) => Nearest(stored["setFreq_float"][2], ExactFloatTimesRate(a))

\* C12 amended: for every f >= 0 in the safe range setFreq(float f) stores
\* the single-precision result cut to an integer, not rounded: a value v
\* with exact - 1 - exact / 2^24 < v <= exact + exact / 2^24, where exact is
\* (N * f / R) * 65536, and v = floor(exact) when R is a power of two, the
\* quotient then being a float.
C12_FloatTruncates ==
    \A a \in FloatFreqs :
        FloatGiven(a) =>
            /\ FloorOfRounded(stored["setFreq_float"][2], ExactFloatTimesRate(a))
            /\ UPDATE_RATE \in {64, 16384} =>
                   Floor(stored["setFreq_float"][2], ExactFloatTimesRate(a))

\* setFreq(1.0) has returned with 16 cells at rate 100: the exact
\* increment is 10485.76 and 10485 is stored.
C12_Witness ==
    /\ NUM_TABLE_CELLS = 16
    /\ UPDATE_RATE = 100
    /\ ctl.pc = "idle"
    /\ FloatGiven(<<1, 0>>)
    /\ stored["setFreq_float"][2] = ULong(10485)
    /\ phase_increment_fractional = ULong(10485)

---------------------------------------------------------------------------
(* The phase against an accumulator without a width.                       *)

RECURSIVE BigModFrom(_, _, _, _)
BigModFrom(a, n, i, rem) ==
    IF i = 0 THEN rem
    ELSE BigModFrom(a, n, i - 1, (rem * 256 + a[i]) % n)

\* a mod n, for 0 < n <= 2^16
BigMod(a, n) == BigModFrom(a, n, Len(a), 0)

\* p + k * d, exactly
Accumulated(p, d, k) == BigAdd(p, BigMul(d, k))

\* floor((p + k * d) / 2^16) mod n
UnboundedIndex(p, d, k, n) == BigMod(BigShr(Accumulated(p, d, k), 2), n)

\* the increment of the calls made since the last setter returned
RunInc ==
    IF ctl.pc \in {"store", "restore"} THEN ctl.before
    ELSE phase_increment_fractional

\* C13: the index the k-th next() call reads, with the phase wrapping at
\* 2^32, is floor((p + k * d) / 2^16) mod NUM_TABLE_CELLS with p + k * d
\* not wrapped, for every k, from every phase p and with every increment d.
C13_WrapKeepsPeriod ==
    \A k \in 1..Len(run.idx) :
        run.idx[k] = UnboundedIndex(run.start, RunInc, k, NUM_TABLE_CELLS)

\* The phase has wrapped past 2^32 more than once in a run of next() calls
\* whose increment is not a whole number of cells, and the last call read
\* an entry other than the first.
C13_Witness ==
    /\ run.n = Len(run.idx)
    /\ run.n > 100
    /\ Accumulated(run.start, RunInc, run.n)[5] >= 2
    /\ RunInc[1] # 0
    /\ run.idx[run.n] # 0

---------------------------------------------------------------------------
(* setFreq_n8() given frequencies whose product with the table length      *)
(* does and does not fit 32 bits.                                          *)

\* Q24n8: 1.5, 440, 2^20 (the quotient may need more than 24 bits),
\* 0x40000100 and 0xFFFFFFFF (the product needs more than 32)
N8Freqs == {ULong(384), ULong(112640), <<0, 0, 0, 16>>, <<0, 1, 0, 64>>,
            <<255, 255, 255, 255>>}

InitN8 ==
    /\ Oscil(Configs, PhaseInits, IncInits, BOOLEAN)
    /\ twin = NoTwin

NextN8 ==
    \/ \E a \in N8Freqs : nsets < MaxSets /\ Enter("setFreq_n8", a)
    \/ Cli
    \/ StoreByte
    \/ Restore

SpecN8 == InitN8 /\ [][NextN8]_vars

\* setFreq_n8(a) has returned
N8Given(a) ==
    /\ stored["setFreq_n8"] # <<>>
    /\ stored["setFreq_n8"][1] = a

\* freq * NUM_TABLE_CELLS, exactly
N8Product(a) == BigMul(a, NUM_TABLE_CELLS)

\* C14: setFreq_n8(freq) stores ((freq * N) / R) << 8 with the product and
\* the shift in 32 bits and the division truncating: always
\* (((freq * N) mod 2^32) div R) * 256 mod 2^32, which is
\* floor(freq * N / R) * 256 when freq * N < 2^32 and the quotient is below
\* 2^24; the value the call returns with is the value stored.
C14_N8TruncatesAndWraps ==
    \A a \in N8Freqs :
        N8Given(a) =>
            LET v == stored["setFreq_n8"][2]
                q == BigShr(v, 1)
            IN  /\ v[1] = 0
                /\ \E t \in 0..255 : Floor(q \o <<t>>, U32(N8Product(a)))
                /\ (/\ Fits32(N8Product(a))
                    /\ BigLess(N8Product(a), <<0, 0, 0>> \o ToBytes(UPDATE_RATE, 2)))
                       => Floor(q, N8Product(a))
                /\ ctl.pc = "idle" => phase_increment_fractional = v

\* setFreq_n8(0x40000100) has returned: the product with the table length
\* does not fit 32 bits, and an increment other than 0 is stored.
C14_Witness ==
    /\ N8Given(<<0, 1, 0, 64>>)
    /\ ~Fits32(N8Product(<<0, 1, 0, 64>>))
    /\ ctl.pc = "idle"
    /\ phase_increment_fractional = stored["setFreq_n8"][2]
    /\ phase_increment_fractional # ULong(0)

---------------------------------------------------------------------------
(* The phase of a new oscillator.                                          *)

\* C15 as claimed: before any next() or phMod() call the phase of a newly
\* constructed oscillator is 0, so that the first next() after
\* setPhaseInc(d) reads the entry at index (d >> 16) & (NUM_TABLE_CELLS - 1).
C15_Original ==
    /\ ncalls = 0 => phase_fractional = ULong(0)
    /\ (/\ ncalls = 1
        /\ last.fn = "next"
        /\ last.pc = "idle"
        /\ stored["setPhaseInc"] # <<>>
        /\ last.inc = stored["setPhaseInc"][2])
       => last.idx = readIndex(stored["setPhaseInc"][2], NUM_TABLE_CELLS)

---------------------------------------------------------------------------
(* Progress.  The processor goes on executing the store it has disabled    *)
(* interrupts for, and a timer interrupt that is pending is taken once     *)
(* interrupts are enabled.                                                 *)

NextLive ==
    \/ \E a \in N8Args : nsets < MaxSets /\ Enter("setFreq_n8", a)
    \/ \E a \in IntArgs : nsets < MaxSets /\ Enter("setFreq_int", a)
    \/ \E a \in FloatArgs : nsets < MaxSets /\ Enter("setFreq_float", a)
    \/ \E a \in PhaseIncArgs : nsets < MaxSets /\ Enter("setPhaseInc", a)
    \/ Cli
    \/ StoreByte
    \/ Restore
    \/ ncalls < MaxCalls /\ CallNext

\* SF_vars(ncalls < MaxCalls /\ CallNext), written out with the states the
\* call is enabled in and the steps that are calls: the timer interrupt
\* stays pending while interrupts are disabled and is taken when they are
\* enabled again.
PendingInterruptTaken ==
    []<>(SREG_I /\ ncalls < MaxCalls) => []<><<ncalls' = ncalls + 1>>_vars

SpecLive ==
    /\ Init
    /\ [][NextLive]_vars
    /\ WF_vars(StoreByte)
    /\ WF_vars(Restore)
    /\ PendingInterruptTaken

\* outside a setter's store the interrupt flag is what it was at the start
InterruptStateKept ==
    /\ SREG_I => [](ctl.pc \in {"idle", "entered"} => SREG_I)
    /\ ~SREG_I => [](ctl.pc \in {"idle", "entered"} => ~SREG_I)

\* a setter that has disabled the interrupt returns
StoreEnds == [](ctl.pc \in {"store", "restore"} => <>(ctl.pc = "idle"))

\* with interrupts enabled at the start, every next() that is pending runs
PendingNextRuns == SREG_I => <>(ncalls = MaxCalls)

\* C16: every setter leaves the interrupt flag as it found it on entry,
\* enabled or disabled; the interrupt is disabled for the store only, which
\* ends; and with the interrupt enabled and taken fairly, a pending next()
\* eventually runs, whatever setters are called.
C16_SettersRestoreInterrupts ==
    /\ InterruptStateKept
    /\ StoreEnds
    /\ PendingNextRuns

\* A setter entered with interrupts enabled has stored a new increment and
\* returned with them enabled, and next() has run since, adding it.
C16_Witness ==
    /\ ctl.pc = "idle"
    /\ nsets = 1
    /\ SREG_I
    /\ ctl.sreg_save
    /\ stored["setFreq_n8"] # <<>>
    /\ last.fn = "next"
    /\ last.pc = "idle"
    /\ last.inc = stored["setFreq_n8"][2]
    /\ last.inc \notin IncInits
    /\ ncalls = MaxCalls

---------------------------------------------------------------------------
(* phMod() with proportions one whole table length apart.                  *)

\* Q15n16 proportions: 0, just under 1, -1, the smallest negative, just
\* under -1, 4095 (with 8 cells 4096 is one too many for a long), and 16384
PhModProportions == {0, 65535, -65536, -1, -65537, 268369920, 1073741824}

InitPhMod ==
    /\ Oscil(Configs, PhaseInits, IncInits, {TRUE})
    /\ twin = NoTwin

NextPhMod ==
    \/ \E m \in PhModProportions : ncalls < MaxCalls /\ CallPhMod(m)
    \/ ncalls < MaxCalls /\ CallNext

SpecPhMod == InitPhMod /\ [][NextPhMod]_vars

\* m + 65536 is a long
NextProportionIsLong(m) == m <= 2147483647 - 65536

\* phMod(m + 65536), called where the last call was, returns what that call
\* returned and leaves the phase it left
SameAsOneTableOn ==
    {<<r[1], r[2]>> : r \in phMod(last.ph0, last.inc, last.arg + 65536, table,
                                  NUM_TABLE_CELLS)}
        = {<<phase_fractional, last.ret>>}

\* floor((fractional16(ph) + m * n) / 2^16) mod n, for m * n a long
OffsetCells(ph, m, n) ==
    (((m * n) \div 65536)
     + ((ph[1] + 256 * ph[2] + ((m * n) % 65536)) \div 65536)) % n

\* the last phMod() call read OffsetCells on from where next() would have
ReadsOffsetFromNext ==
    last.idx = (readIndex(phase_fractional, NUM_TABLE_CELLS)
                + OffsetCells(phase_fractional, last.arg, NUM_TABLE_CELLS))
               % NUM_TABLE_CELLS

=============================================================================
